---- MODULE Spec2Model ----
(***************************************************************************)
(* A model of the Go runtime that djan-go-rm.py generates for one table    *)
(* T(id, name, deleted_at, owner_id): the query builder (QS), the update   *)
(* builder (UpdateQS), the condition fragments and the entity persistence  *)
(* operations, all taken from the template _model_template and from        *)
(* Model.generate.                                                         *)
(*                                                                         *)
(* SQL text is a sequence of tokens: Lit(s) is literal text, Ph(n) is the  *)
(* placeholder $n.  A parameter is a positive integer; NilParam is Go's    *)
(* nil interface value.  An error is a string, NoErr being Go's nil error. *)
(***************************************************************************)
EXTENDS Integers, Sequences, FiniteSets, TLC

\* ------------------------------------------------------------ bounds

\* Mutator calls in one fluent chain QS{}.A().B()...
MaxChain == 2

\* Rows the store hands back to one All().
MaxRows == 2

\* Entities in the caller's collection.
MaxEnts == 2

\* Filter calls, and OrderBy calls, behind the base builder of SpecBuilder.
MaxBase == 3

\* Builders a SpecBuilder program keeps from the chain that continues its base.
MaxHeld == 3

\* QS values a SpecBuilder program derives from the builders it holds.
MaxDerived == 2

\* Update() pivots.
MaxPivots == 1

\* Parameter values the callers pass.
Values == {1, 2}

\* Value lists passed to <Col>In / <Col>NotIn.
InLists == {<< >>, <<1, 2>>, <<2>>}

NilParam == 0
NoErr == ""
StoreErr == "store error"
ErrNoRows == "pgx.ErrNoRows"

VARIABLES
    qs,         \* SpecQuery: the query builder the fluent chain has reached
    uqs,        \* SpecQuery: the update builder after the pivot Update()
    steps,      \* SpecQuery: mutator calls made so far in the chain
    res,        \* the outcome of the last terminal operation
    schema,     \* SpecEntity: the fields of the table, as Model.setup sees them
    ents,       \* SpecEntity: the caller's entities (a TList)
    pre,        \* SpecEntity: history, ents as the last operation found them
    heap,       \* SpecBuilder: the backing arrays of condFragments slices
    oheap,      \* SpecBuilder: the backing arrays of order slices
    qsv,        \* SpecBuilder: the QS values the program holds
    uqsv,       \* SpecBuilder: the UpdateQS values the program holds
    parent,     \* SpecBuilder: history, the value each QS value was derived from
    expect,     \* SpecBuilder: history, each QS value as its mutator returned it
    recv,       \* SpecBuilder: history, the receiver of the last mutator call
    dj,         \* SpecMapper: the Django fields of the model being set up
    mdl,        \* SpecMapper: the Model object that Model.setup fills
    thr         \* SpecThreads: the goroutines deriving builders from a shared base

vars ==
    <<qs, uqs, steps, res, schema, ents, pre, heap, oheap, qsv, uqsv, parent, expect, recv,
      dj, mdl, thr>>

queryVars == <<qs, uqs, steps, res>>
entityVars == <<schema, ents, pre>>
builderVars == <<heap, oheap, qsv, uqsv, parent, expect, recv>>
mapperVars == <<dj, mdl>>
threadVars == <<thr>>

\* ------------------------------------------------------------ SQL text

Lit(s) == [s |-> s, n |-> 0]
Ph(n) == [s |-> "$", n |-> n]

\* The placeholder numbers of a text, left to right.
RECURSIVE Placeholders(_)
Placeholders(text) ==
    IF text = << >> THEN << >>
    ELSE (IF Head(text).s = "$" THEN <<Head(text).n>> ELSE << >>)
         \o Placeholders(Tail(text))

\* strings.Join(parts, sep) over token sequences.
RECURSIVE Join(_, _)
Join(parts, sep) ==
    IF parts = << >> THEN << >>
    ELSE IF Len(parts) = 1 THEN Head(parts)
    ELSE Head(parts) \o <<Lit(sep)>> \o Join(Tail(parts), sep)

\* ------------------------------------------------------------ schema of T
\* db_column of the columns the generated methods are about.

ColId == "\"id\""
ColName == "\"name\""
ColDeletedAt == "\"deleted_at\""
ColOwner == "\"owner_id\""

\* ------------------------------------------------------------ fragments
\* A condition fragment; every kind carries the same fields.

Fragment(k, txt, param, vals, groups, sub) ==
    [k |-> k, txt |-> txt, param |-> param, vals |-> vals,
     groups |-> groups, sub |-> sub]

UnaryFragment(frag, p) == Fragment("unary", frag, p, << >>, << >>, << >>)
ConstantFragment(c) == Fragment("const", c, NilParam, << >>, << >>, << >>)
InFragment(col, vs) == Fragment("in", col, NilParam, vs, << >>, << >>)
NotInFragment(col, vs) == Fragment("notin", col, NilParam, vs, << >>, << >>)
OrFragment(gs) == Fragment("or", "", NilParam, << >>, gs, << >>)
SubqueryFragment(col, oqs) == Fragment("subq", col, NilParam, << >>, << >>, <<oqs>>)

\* A query builder value: condFragments, order, forClause.
QSValue(cf, order, forClause) ==
    [condFragments |-> cf, order |-> order, forClause |-> forClause]

EmptyQS == QSValue(<< >>, << >>, "")

\* ------------------------------------------------------------ counter
\* models.PositionalCounter: c is the number of tokens handed out so far.

CounterGet(c) == [tok |-> Ph(c + 1), c |-> c + 1]

\* n successive c.Get() calls.
CounterGetN(c, n) == [i \in 1..n |-> CounterGet(c + i - 1).tok]

Compiled(text, params, c) == [text |-> text, params |-> params, c |-> c]

\* ------------------------------------------------------------ compilation
\* GetConditionFragment(c) of every fragment kind: (text, params) and the
\* counter afterwards.

RECURSIVE CompileFragment(_, _)
RECURSIVE AndFragmentCompile(_, _)
RECURSIVE OrGroupsCompile(_, _)
RECURSIVE whereClause(_, _)

\* models.ConstantFragment: the fixed text, no parameter.
ConstantCompile(f, c) == Compiled(<<Lit(f.txt)>>, << >>, c)

\* models.UnaryFragment: "<op> <token>", one parameter.
UnaryCompile(f, c) ==
    LET g == CounterGet(c)
    IN Compiled(<<Lit(f.txt), g.tok>>, <<f.param>>, g.c)

\* InCompile with c.Get() hoisted out of the loop: one token for all values.
InCompile_OneToken(f, c) ==
    IF Len(f.vals) = 0
    THEN Compiled(<<Lit("false")>>, << >>, c)
    ELSE Compiled(
            <<Lit(f.txt \o " IN (")>>
                \o Join([i \in 1..Len(f.vals) |-> <<CounterGet(c).tok>>], ", ")
                \o <<Lit(")")>>,
            f.vals,
            c + 1)

\* InCompile whose empty list still takes a token from the counter.
InCompile_EmptyTakesToken(f, c) ==
    IF Len(f.vals) = 0
    THEN Compiled(<<Lit("false")>>, << >>, CounterGet(c).c)
    ELSE Compiled(
            <<Lit(f.txt \o " IN (")>>
                \o Join([i \in 1..Len(f.vals) |-> <<CounterGetN(c, Len(f.vals))[i]>>], ", ")
                \o <<Lit(")")>>,
            f.vals,
            c + Len(f.vals))

\* in<Model><field>.GetConditionFragment over a value list.
InCompile(f, c) ==
    IF Len(f.vals) = 0
    THEN Compiled(<<Lit("false")>>, << >>, c)
    ELSE Compiled(
            <<Lit(f.txt \o " IN (")>>
                \o Join([i \in 1..Len(f.vals) |-> <<CounterGetN(c, Len(f.vals))[i]>>], ", ")
                \o <<Lit(")")>>,
            f.vals,
            c + Len(f.vals))

\* notin<Model><field>.GetConditionFragment over a value list.
NotInCompile(f, c) ==
    IF Len(f.vals) = 0
    THEN Compiled(<<Lit("false")>>, << >>, c)
    ELSE Compiled(
            <<Lit(f.txt \o " NOT IN (")>>
                \o Join([i \in 1..Len(f.vals) |-> <<CounterGetN(c, Len(f.vals))[i]>>], ", ")
                \o <<Lit(")")>>,
            f.vals,
            c + Len(f.vals))

select_id_stmt == <<Lit("SELECT \"id\" FROM \"t\"")>>
select_stmt == <<Lit("SELECT \"id\", \"name\", \"deleted_at\", \"owner_id\" FROM \"t\"")>>
select_count_stmt == <<Lit("SELECT COUNT(\"id\") FROM \"t\"")>>
delete_qs_stmt == <<Lit("DELETE FROM \"t\"")>>
update_qs_stmt == <<Lit("UPDATE \"t\" SET ")>>

\* A compiled text between two fixed texts: same parameters, same counter.
Wrapped(before, x, after) == Compiled(before \o x.text \o after, x.params, x.c)

\* Two compiled texts in a row, sep between them unless the second is of
\* nothing: the parameters in the same order, the counter of the second.
Joined(h, t, sep, last) ==
    Compiled(h.text \o (IF last THEN << >> ELSE <<Lit(sep)>>) \o t.text,
             h.params \o t.params,
             t.c)

\* QS.QueryId: the statement embedded in an IN clause.
QueryId(q, c) == Wrapped(select_id_stmt, whereClause(q, c), << >>)

\* SubqueryCompile that numbers the embedded statement with a counter of its own.
SubqueryCompile_OwnCounter(f, c) ==
    Wrapped(<<Lit(f.txt \o " IN (")>>, QueryId(f.sub[1], 0), <<Lit(")")>>)

\* in<Model><field><RelModel>.GetConditionFragment over a related builder.
SubqueryCompile(f, c) ==
    Wrapped(<<Lit(f.txt \o " IN (")>>, QueryId(f.sub[1], c), <<Lit(")")>>)

\* The groups after the first, compiled from where the first, h, left the counter.
OrGroupsRest(h, rest) == Joined(h, OrGroupsCompile(rest, h.c), " OR ", rest = << >>)

\* models.OrFragment: the groups in order, sharing the counter.
OrGroupsCompile(gs, c) ==
    IF gs = << >> THEN Compiled(<< >>, << >>, c)
    ELSE OrGroupsRest(AndFragmentCompile(Head(gs), c), Tail(gs))

OrCompile(f, c) == Wrapped(<<Lit("(")>>, OrGroupsCompile(f.groups, c), <<Lit(")")>>)

CompileFragment(f, c) ==
    CASE f.k = "const" -> ConstantCompile(f, c)
      [] f.k = "unary" -> UnaryCompile(f, c)
      [] f.k = "in" -> InCompile(f, c)
      [] f.k = "notin" -> NotInCompile(f, c)
      [] f.k = "or" -> OrCompile(f, c)
      [] f.k = "subq" -> SubqueryCompile(f, c)

\* The children after the first, compiled from where the first, h, left the counter.
AndFragmentRest(h, rest) == Joined(h, AndFragmentCompile(rest, h.c), " AND ", rest = << >>)

\* models.AndFragment: the children in order, joined with AND.
AndFragmentCompile(fs, c) ==
    IF fs = << >> THEN Compiled(<< >>, << >>, c)
    ELSE AndFragmentRest(CompileFragment(Head(fs), c), Tail(fs))

\* QS.whereClause
whereClause(q, c) ==
    IF Len(q.condFragments) = 0
    THEN Compiled(<< >>, << >>, c)
    ELSE Wrapped(<<Lit(" WHERE ")>>, AndFragmentCompile(q.condFragments, c), << >>)

\* QS.orderByClause
orderByClause(q) ==
    IF Len(q.order) = 0 THEN << >>
    ELSE <<Lit(" ORDER BY ")>> \o Join([i \in 1..Len(q.order) |-> <<Lit(q.order[i])>>], ", ")

\* QS.queryFull: a fresh counter per statement.
queryFull(q) ==
    Wrapped(select_stmt, whereClause(q, 0),
            orderByClause(q) \o (IF q.forClause = "" THEN << >> ELSE <<Lit(q.forClause)>>))

\* ------------------------------------------------------------ store
\* models.DBInterface: Query, QueryRow and Exec.  Every call a terminal
\* operation makes is logged with what the store answered: the error (of
\* Exec, of Query, or of row.Scan after QueryRow), a number n (rows
\* affected, the count, the id of the row, or how many rows a Query
\* yields) and, for Query, which row fails to scan (0: none).

\* For a Query whose rows run out, rowsErr is what rows.Err() then reports.
RowsAnswer(err, n, failAt, rowsErr) ==
    [err |-> err, n |-> n, failAt |-> failAt, rowsErr |-> rowsErr]

Answer(err, n, failAt) == RowsAnswer(err, n, failAt, NoErr)

Call(fn, st, params, ans) == [fn |-> fn, st |-> st, params |-> params, ans |-> ans]

Result(op, calls, es, n, err) ==
    [op |-> op, calls |-> calls, ents |-> es, n |-> n, err |-> err]

NoResult == Result("none", << >>, << >>, 0, NoErr)

\* A row scanned into a new entity: obj := T{existsInDB: true}; Scan(&obj...).
ScannedRow(id) == [existsInDB |-> TRUE, id |-> id]

\* ------------------------------------------------------------ QS mutators
\* Each returns the new builder value; here the chain is linear (the value
\* it was derived from is not used again), so append is plain extension.

filter(q, c, p) ==
    [q EXCEPT !.condFragments = Append(@, UnaryFragment(c, p))]

IsNull(q, col) ==
    [q EXCEPT !.condFragments = Append(@, ConstantFragment(col \o " IS NULL"))]

IsNotNull(q, col) ==
    [q EXCEPT !.condFragments = Append(@, ConstantFragment(col \o " IS NOT NULL"))]

In(q, col, values) ==
    [q EXCEPT !.condFragments = Append(@, InFragment(col, values))]

NotIn(q, col, values) ==
    [q EXCEPT !.condFragments = Append(@, NotInFragment(col, values))]

\* QS.Or: o collects expr.condFragments of every argument.
Or(q, exprs) ==
    [q EXCEPT !.condFragments =
        Append(@, OrFragment([i \in 1..Len(exprs) |-> exprs[i].condFragments]))]

\* <Col>In(oqs) of a foreign-key column.
SubqueryIn(q, col, oqs) ==
    [q EXCEPT !.condFragments = Append(@, SubqueryFragment(col, oqs))]

OrderBy(q, key) == [q EXCEPT !.order = Append(@, key)]

SetForClause(q, clause) == [q EXCEPT !.forClause = clause]

\* ------------------------------------------------------------ UpdateQS

UQSValue(live, updates, cf) ==
    [live |-> live, updates |-> updates, condFragments |-> cf]

NoUQS == UQSValue(FALSE, << >>, << >>)

\* QS.Update: the pivot.
Update(q) == UQSValue(TRUE, << >>, q.condFragments)

\* UpdateQS.update(c, v)
update(u, c, v) ==
    [u EXCEPT !.updates =
        Append(@, IF v = NilParam
                  THEN ConstantFragment(c \o " = NULL")
                  ELSE UnaryFragment(c \o " =", v))]

\* The loop of UpdateQS.Exec over uqs.updates, one counter for all, and
\* strings.Join(sets, ", ").
RECURSIVE SetsCompile(_, _)

\* The assignments after the first, compiled from where the first, h, left the counter.
SetsRest(h, rest) == Joined(h, SetsCompile(rest, h.c), ", ", rest = << >>)

SetsCompile(sets, c) ==
    IF sets = << >> THEN Compiled(<< >>, << >>, c)
    ELSE SetsRest(CompileFragment(Head(sets), c), Tail(sets))

\* The WHERE clause of UpdateQS.Exec, compiled from where the assignments,
\* s, left the counter, after "UPDATE ... SET" and the assignments.
ExecWhere(s, u) ==
    Joined(Wrapped(update_qs_stmt, s, << >>),
           whereClause(QSValue(u.condFragments, << >>, ""), s.c), "", TRUE)

\* ExecStatement with the WHERE clause compiled before the assignments.
ExecStatement_WhereFirst(u) ==
    LET w == whereClause(QSValue(u.condFragments, << >>, ""), 0)
        s == SetsCompile(u.updates, w.c)
    IN Compiled(update_qs_stmt \o s.text \o w.text, s.params \o w.params, s.c)

\* The statement and parameters UpdateQS.Exec hands to db.Exec.
ExecStatement(u) == ExecWhere(SetsCompile(u.updates, 0), u)

\* UpdateExec without the early return on an empty assignment list.
UpdateExec_NoEarlyReturn(u, ans) ==
    LET st == ExecStatement(u)
        calls == <<Call("Exec", st.text, st.params, ans)>>
    IN IF ans.err # NoErr
       THEN Result("Exec", calls, << >>, 0, ans.err)
       ELSE Result("Exec", calls, << >>, ans.n, NoErr)

\* UpdateQS.Exec
UpdateExec(u, ans) ==
    IF Len(u.updates) = 0
    THEN Result("Exec", << >>, << >>, 0, NoErr)
    ELSE LET st == ExecStatement(u)
             calls == <<Call("Exec", st.text, st.params, ans)>>
         IN IF ans.err # NoErr
            THEN Result("Exec", calls, << >>, 0, ans.err)
            ELSE Result("Exec", calls, << >>, ans.n, NoErr)

\* ------------------------------------------------------------ QS terminals

\* QS.Count
QSCount(q, ans) ==
    LET w == whereClause(q, 0)
        calls == <<Call("QueryRow", select_count_stmt \o w.text, w.params, ans)>>
    IN IF ans.err # NoErr
       THEN Result("Count", calls, << >>, 0, ans.err)
       ELSE Result("Count", calls, << >>, ans.n, NoErr)

\* QS.All
QSAll(q, ans) ==
    LET s == queryFull(q)
        calls == <<Call("Query", s.text, s.params, ans)>>
    IN IF ans.err # NoErr THEN Result("All", calls, << >>, 0, ans.err)
       ELSE IF ans.failAt \in 1..ans.n THEN Result("All", calls, << >>, 0, StoreErr)
       ELSE Result("All", calls, [i \in 1..ans.n |-> ScannedRow(i)], ans.n, NoErr)

\* QSFirst whose default case hands back the entity together with the error.
QSFirst_EntityWithError(q, ans) ==
    LET s == queryFull(q)
        calls == <<Call("QueryRow", s.text \o <<Lit(" LIMIT 1")>>, s.params, ans)>>
    IN CASE ans.err = NoErr -> Result("First", calls, <<ScannedRow(ans.n)>>, 1, NoErr)
         [] ans.err = ErrNoRows -> Result("First", calls, << >>, 0, NoErr)
         [] OTHER -> Result("First", calls, <<ScannedRow(ans.n)>>, 0, ans.err)

\* QS.First
QSFirst(q, ans) ==
    LET s == queryFull(q)
        calls == <<Call("QueryRow", s.text \o <<Lit(" LIMIT 1")>>, s.params, ans)>>
    IN CASE ans.err = NoErr -> Result("First", calls, <<ScannedRow(ans.n)>>, 1, NoErr)
         [] ans.err = ErrNoRows -> Result("First", calls, << >>, 0, NoErr)
         [] OTHER -> Result("First", calls, << >>, 0, ans.err)

\* QS.Delete
QSDelete(q, ans) ==
    LET w == whereClause(q, 0)
        calls == <<Call("Exec", delete_qs_stmt \o w.text, w.params, ans)>>
    IN IF ans.err # NoErr
       THEN Result("Delete", calls, << >>, 0, ans.err)
       ELSE Result("Delete", calls, << >>, ans.n, NoErr)

\* ------------------------------------------------------------ Model.setup / Model.generate
\* A field: its db_column, the struct member holding it, whether it is the
\* primary key and whether it is an autofield.

Field(col, member, isPk, isAuto, null) ==
    [col |-> col, member |-> member, pk |-> isPk, auto |-> isAuto, null |-> null]

\* The concrete fields of T, the key an AutoField or a caller-supplied one,
\* owner a ForeignKey to T, nullable or not.
Fields(pkAuto, ownerNull) ==
    << Field(ColId, "id", TRUE, pkAuto, FALSE),
       Field(ColName, "name", FALSE, FALSE, FALSE),
       Field(ColOwner, "owner", FALSE, FALSE, ownerNull) >>

user_fields(fs) == SelectSeq(fs, LAMBDA f : ~f.auto /\ ~f.pk)

auto_fields(fs) == SelectSeq(fs, LAMBDA f : f.auto)

pk(fs) == SelectSeq(fs, LAMBDA f : f.pk)[1]

insert_fields(fs) ==
    user_fields(fs) \o (IF ~pk(fs).auto THEN <<pk(fs)>> ELSE << >>)

insert_stmt_column_count(fs) == Len(insert_fields(fs))

ColumnList(fields) == Join([i \in 1..Len(fields) |-> <<Lit(fields[i].col)>>], ", ")

batch_insert_stmt(fs) ==
    <<Lit("INSERT INTO \"t\" (")>> \o ColumnList(insert_fields(fs)) \o <<Lit(") VALUES")>>

batch_insert_returning(fs) ==
    IF auto_fields(fs) = << >> THEN << >>
    ELSE <<Lit("RETURNING ")>> \o ColumnList(auto_fields(fs))

insert_stmt(fs) ==
    batch_insert_stmt(fs) \o <<Lit(" (")>>
        \o Join([i \in 1..Len(insert_fields(fs)) |-> <<Ph(i)>>], ", ") \o <<Lit(")")>>
        \o (IF auto_fields(fs) = << >> THEN << >>
            ELSE <<Lit(" ")>> \o batch_insert_returning(fs))

\* fmt.Sprintf("($%d, $%d)", offs + 0, offs + 1)
insert_stmt_values_template(fs, offs) ==
    <<Lit("(")>>
        \o Join([i \in 1..Len(insert_fields(fs)) |-> <<Ph(offs + i - 1)>>], ", ")
        \o <<Lit(")")>>

Members(e, fields) == [i \in 1..Len(fields) |-> e[fields[i].member]]

insert_members(fs, e) == Members(e, insert_fields(fs))

update_stmt(fs) ==
    <<Lit("UPDATE \"t\" SET ")>>
        \o Join([i \in 1..Len(user_fields(fs)) |->
                    <<Lit(user_fields(fs)[i].col), Lit(" = "), Ph(i)>>], ", ")
        \o <<Lit(" WHERE "), Lit(pk(fs).col), Lit(" = "), Ph(Len(user_fields(fs)) + 1)>>

update_members(fs, e) == Members(e, user_fields(fs) \o <<pk(fs)>>)

delete_stmt(fs) ==
    <<Lit("DELETE FROM \"t\" WHERE "), Lit(pk(fs).col), Lit(" = "), Ph(1)>>

\* ------------------------------------------------------------ entity persistence
\* Each operation yields the entity (or the list) as the call leaves it, and
\* the result with the store calls made.

Entity(existsInDB, id, name, owner) ==
    [existsInDB |-> existsInDB, id |-> id, name |-> name, owner |-> owner]

Outcome(es, r) == [ents |-> es, res |-> r]

\* The value the store generates for the autofield of the j-th inserted row.
NewId(j) == MaxEnts + j

\* rows.Scan(insert_autoptr_members): the autofields of e read from row j.
ScanAuto(fs, e, j) == IF auto_fields(fs) = << >> THEN e ELSE [e EXCEPT !.id = NewId(j)]

\* EntityInsert that marks the entity persisted before looking at the error.
EntityInsert_FlagsOnError(fs, e, ans) ==
    LET fn == IF auto_fields(fs) # << >> THEN "QueryRow" ELSE "Exec"
        calls == <<Call(fn, insert_stmt(fs), insert_members(fs, e), ans)>>
    IN IF ans.err # NoErr
       THEN Outcome([e EXCEPT !.existsInDB = TRUE], Result("Save", calls, << >>, 0, ans.err))
       ELSE Outcome([ScanAuto(fs, e, 1) EXCEPT !.existsInDB = TRUE],
                    Result("Save", calls, << >>, 0, NoErr))

\* (t *T) insert
EntityInsert(fs, e, ans) ==
    LET fn == IF auto_fields(fs) # << >> THEN "QueryRow" ELSE "Exec"
        calls == <<Call(fn, insert_stmt(fs), insert_members(fs, e), ans)>>
    IN IF ans.err # NoErr
       THEN Outcome(e, Result("Save", calls, << >>, 0, ans.err))
       ELSE Outcome([ScanAuto(fs, e, 1) EXCEPT !.existsInDB = TRUE],
                    Result("Save", calls, << >>, 0, NoErr))

\* (t *T) update
EntityUpdate(fs, e, ans) ==
    Outcome(e, Result("Save", <<Call("Exec", update_stmt(fs), update_members(fs, e), ans)>>,
                      << >>, 0, ans.err))

\* (t *T) Save
EntitySave(fs, e, ans) ==
    IF e.existsInDB THEN EntityUpdate(fs, e, ans) ELSE EntityInsert(fs, e, ans)

\* (t *T) Delete
EntityDelete(fs, e, ans) ==
    Outcome([e EXCEPT !.existsInDB = FALSE],
            Result("Delete", <<Call("Exec", delete_stmt(fs), <<e[pk(fs).member]>>, ans)>>,
                   << >>, 0, ans.err))

\* Get<Col> that runs the query whether or not the column holds a value.
EntityGetOwner_QueriesNull(fs, e, ans) ==
    [QSFirst(filter(EmptyQS, pk(fs).col \o " =", e.owner), ans) EXCEPT !.op = "GetOwner"]

\* (t *T) GetOwner: a nullable column without a value (Valid false, here
\* NilParam) answers nil, nil; otherwise TQS{}.IDEq(t.owner).First(ctx, db).
EntityGetOwner(fs, e, ans) ==
    IF fs[3].null /\ e.owner = NilParam
    THEN Result("GetOwner", << >>, << >>, 0, NoErr)
    ELSE [QSFirst(filter(EmptyQS, pk(fs).col \o " =", e.owner), ans) EXCEPT !.op = "GetOwner"]

ToSet(sq) == {sq[i] : i \in DOMAIN sq}

\* The indices of es, in order, that satisfy Test.
Indices(es, Test(_)) == SelectSeq([i \in 1..Len(es) |-> i], LAMBDA i : Test(es[i]))

\* ListUpdateCalls that goes on to the next entity after a failed update.
ListUpdateCalls_KeepsGoing(fs, es, failIdx) ==
    LET ex == Indices(es, LAMBDA e : e.existsInDB)
    IN [k \in 1..Len(ex) |->
            Call("Exec", update_stmt(fs), update_members(fs, es[ex[k]]),
                 Answer(IF ex[k] = failIdx THEN StoreErr ELSE NoErr, 0, 0))]

\* The first loop of (tl TList) Save: an update per existing entity, in
\* order, up to and including the one at index failIdx (0: none fails).
ListUpdateCalls(fs, es, failIdx) ==
    LET ex == Indices(es, LAMBDA e : e.existsInDB)
        upto == SelectSeq(ex, LAMBDA i : failIdx \notin ToSet(ex) \/ i <= failIdx)
    IN [k \in 1..Len(upto) |->
            Call("Exec", update_stmt(fs), update_members(fs, es[upto[k]]),
                 Answer(IF upto[k] = failIdx THEN StoreErr ELSE NoErr, 0, 0))]

\* BatchValues that never advances offs.
RECURSIVE BatchValues_FixedOffset(_, _, _)
BatchValues_FixedOffset(fs, inserts, offs) ==
    IF inserts = << >> THEN [vva |-> << >>, vaa |-> << >>]
    ELSE LET t == BatchValues_FixedOffset(fs, Tail(inserts), offs)
         IN [vva |-> <<insert_stmt_values_template(fs, offs)>> \o t.vva,
             vaa |-> insert_members(fs, Head(inserts)) \o t.vaa]

\* The multi-row INSERT of (tl TList) Save over the entities to insert.
RECURSIVE BatchValues(_, _, _)
BatchValues(fs, inserts, offs) ==
    IF inserts = << >> THEN [vva |-> << >>, vaa |-> << >>]
    ELSE LET t == BatchValues(fs, Tail(inserts), offs + insert_stmt_column_count(fs))
         IN [vva |-> <<insert_stmt_values_template(fs, offs)>> \o t.vva,
             vaa |-> insert_members(fs, Head(inserts)) \o t.vaa]

BatchInsertStatement(fs, inserts) ==
    LET v == BatchValues(fs, inserts, 1)
    IN Compiled(
            batch_insert_stmt(fs) \o <<Lit(" ")>> \o Join(v.vva, ", ")
                \o (IF auto_fields(fs) = << >> THEN << >>
                    ELSE <<Lit(" ")>> \o batch_insert_returning(fs)),
            v.vaa,
            Len(v.vaa))

\* How many of the N inserted entities the last loop of (tl TList) Save gets
\* through, and the error it ends with.
BatchReadBack(fs, N, ans) ==
    IF auto_fields(fs) = << >> THEN [done |-> N, err |-> NoErr]
    ELSE IF ans.failAt \in 1..ans.n /\ ans.failAt <= N
         THEN [done |-> ans.failAt - 1, err |-> StoreErr]
    ELSE IF ans.n < N THEN [done |-> ans.n, err |-> ans.rowsErr]
    ELSE [done |-> N, err |-> NoErr]

\* (tl TList) Save
ListSave(fs, es, failIdx, ans) ==
    LET ucalls == ListUpdateCalls(fs, es, failIdx)
        new == Indices(es, LAMBDA e : ~e.existsInDB)
        inserts == [k \in 1..Len(new) |-> es[new[k]]]
        st == BatchInsertStatement(fs, inserts)
        fn == IF auto_fields(fs) # << >> THEN "Query" ELSE "Exec"
        calls == ucalls \o <<Call(fn, st.text, st.params, ans)>>
        rb == BatchReadBack(fs, Len(new), ans)
        rank(i) == Cardinality({k \in 1..i : ~es[k].existsInDB})
    IN IF failIdx \in ToSet(Indices(es, LAMBDA e : e.existsInDB))
       THEN Outcome(es, Result("ListSave", ucalls, << >>, 0, StoreErr))
       ELSE IF Len(inserts) = 0
       THEN Outcome(es, Result("ListSave", ucalls, << >>, 0, NoErr))
       ELSE IF ans.err # NoErr
       THEN Outcome(es, Result("ListSave", calls, << >>, 0, ans.err))
       ELSE Outcome(
                [i \in 1..Len(es) |->
                    IF ~es[i].existsInDB /\ rank(i) <= rb.done
                    THEN [ScanAuto(fs, es[i], rank(i)) EXCEPT !.existsInDB = TRUE]
                    ELSE es[i]],
                Result("ListSave", calls, << >>, 0, rb.err))

\* ------------------------------------------------------------ Go slices
\* A slice is (array, len, cap): array indexes the backing arrays, 0 being
\* the nil slice.  append writes in place while len < cap and otherwise
\* moves to a new array; the runtime doubles a small capacity.

Slice(arr, len, cap) == [arr |-> arr, len |-> len, cap |-> cap]

NilSlice == Slice(0, 0, 0)

NilCell == Fragment("nil", "", NilParam, << >>, << >>, << >>)

\* The elements a slice shows.
View(h, sl) == [i \in 1..sl.len |-> h[sl.arr][i]]

GrowCap(cap, need) == IF need > 2 * cap THEN need ELSE 2 * cap

\* append(sl, x) over the backing arrays h, whose unused cells hold nil.
SliceAppend(h, sl, x, nil) ==
    IF sl.len < sl.cap
    THEN [heap |-> [h EXCEPT ![sl.arr][sl.len + 1] = x],
          slice |-> Slice(sl.arr, sl.len + 1, sl.cap)]
    ELSE LET newcap == GrowCap(sl.cap, sl.len + 1)
         IN [heap |-> Append(h, [i \in 1..newcap |->
                                    IF i <= sl.len THEN h[sl.arr][i]
                                    ELSE IF i = sl.len + 1 THEN x ELSE nil]),
             slice |-> Slice(Len(h) + 1, sl.len + 1, newcap)]

\* ------------------------------------------------------------ QS over slices
\* The mutators as the generated Go executes them: the receiver is a copy of
\* the struct, its slices still sharing their arrays with the original.

Returned(h, oh, q) == [heap |-> h, oheap |-> oh, qs |-> q]

\* qs.condFragments = append(qs.condFragments, f); return qs
AppendFragment(h, oh, q, f) ==
    LET a == SliceAppend(h, q.condFragments, f, NilCell)
    IN Returned(a.heap, oh, [q EXCEPT !.condFragments = a.slice])

\* QS.filter
GoFilter(h, oh, q, c, p) == AppendFragment(h, oh, q, UnaryFragment(c, p))

\* QS.Or: o holds the condFragments slice of every argument.
GoOr(h, oh, q, exprs) ==
    AppendFragment(h, oh, q, OrFragment([i \in 1..Len(exprs) |-> exprs[i].condFragments]))

\* QS.OrderBy<Col>, OrderBy<Col>Desc, OrderByRandom
GoOrderBy(h, oh, q, key) ==
    LET a == SliceAppend(oh, q.order, key, "")
    IN Returned(h, a.heap, [q EXCEPT !.order = a.slice])

\* QS.ForUpdate, ForUpdateNowait, ForUpdateSkipLocked, ClearForUpdate
GoSetForClause(h, oh, q, clause) == Returned(h, oh, [q EXCEPT !.forClause = clause])

\* QS.Update: the update builder takes the slice, not a copy of its elements.
GoUpdate(q) == q.condFragments

\* What a fragment tree over slices shows when it is compiled: the slices of
\* Or groups followed into the arrays.  A tree that contains itself never
\* ends compiling; following stops after fuel levels with CycleFragment.
CycleFragment == Fragment("cycle", "", NilParam, << >>, << >>, << >>)

RECURSIVE ResolveSlice(_, _, _)
ResolveFragment(h, f, fuel) ==
    IF f.k # "or" THEN f
    ELSE [f EXCEPT !.groups =
            [g \in DOMAIN f.groups |->
                IF fuel = 0 THEN <<CycleFragment>>
                ELSE ResolveSlice(h, f.groups[g], fuel - 1)]]

ResolveSlice(h, sl, fuel) ==
    [i \in 1..sl.len |-> ResolveFragment(h, h[sl.arr][i], fuel)]

\* The builder value (fragments, order, forClause) a QS over slices shows.
Resolve(h, oh, q, fuel) ==
    QSValue(ResolveSlice(h, q.condFragments, fuel), View(oh, q.order), q.forClause)

\* ------------------------------------------------------------ SpecQuery
\* One fluent chain: mutators from the empty builder, optionally the pivot
\* Update() and Set<Col> calls, then one terminal operation.

\* Builders handed to Or(...) and to OwnerIn(...): values of earlier chains.
ExprA == filter(EmptyQS, ColName \o " =", 1)
ExprB == In(filter(EmptyQS, ColId \o " >", 2), ColId, <<2, 1>>)
ExprC == SetForClause(OrderBy(filter(EmptyQS, ColId \o " =", 2), ColId), " FOR UPDATE")
OrCalls == {<<ExprA>>, <<ExprA, ExprB>>}
SubqueryArgs == {EmptyQS, ExprC}
OrderKeys == {ColId, ColId \o " DESC", "random()"}
ForClauses == {" FOR UPDATE", " FOR UPDATE NOWAIT", " FOR UPDATE SKIP LOCKED", ""}

InitQuery ==
    /\ qs = EmptyQS
    /\ uqs = NoUQS
    /\ steps = 0
    /\ res = NoResult
    /\ schema = << >>
    /\ ents = << >>
    /\ pre = << >>
    /\ heap = << >> /\ oheap = << >> /\ qsv = << >> /\ uqsv = << >>
    /\ dj = << >> /\ mdl = << >> /\ thr = << >>
    /\ parent = << >> /\ expect = << >> /\ recv = 0

Building == res.op = "none" /\ ~uqs.live /\ steps < MaxChain

Mutate(q) ==
    /\ Building
    /\ qs' = q
    /\ steps' = steps + 1
    /\ UNCHANGED <<uqs, res, entityVars, builderVars, mapperVars, threadVars>>

QIdEq == \E v \in Values : Mutate(filter(qs, ColId \o " =", v))

QNameNe == \E v \in Values : Mutate(filter(qs, ColName \o " <>", v))

QDeletedAtIsNull == Mutate(IsNull(qs, ColDeletedAt))

QDeletedAtIsNotNull == Mutate(IsNotNull(qs, ColDeletedAt))

QIdIn == \E vs \in InLists : Mutate(In(qs, ColId, vs))

QIdNotIn == \E vs \in InLists : Mutate(NotIn(qs, ColId, vs))

QOr == \E exprs \in OrCalls : Mutate(Or(qs, exprs))

QOwnerIn == \E oqs \in SubqueryArgs : Mutate(SubqueryIn(qs, ColOwner, oqs))

QOrderBy == \E key \in OrderKeys : Mutate(OrderBy(qs, key))

QForUpdate == \E clause \in ForClauses : Mutate(SetForClause(qs, clause))

QUpdate ==
    /\ res.op = "none"
    /\ ~uqs.live
    /\ uqs' = Update(qs)
    /\ UNCHANGED <<qs, steps, res, entityVars, builderVars, mapperVars, threadVars>>

USet(c, v) ==
    /\ res.op = "none"
    /\ uqs.live
    /\ steps < MaxChain
    /\ uqs' = update(uqs, c, v)
    /\ steps' = steps + 1
    /\ UNCHANGED <<qs, res, entityVars, builderVars, mapperVars, threadVars>>

USetName == \E v \in Values : USet(ColName, v)

\* SetOwner(ptr): the owner's primary key, or nil for a nil pointer.
USetOwner == \E v \in Values \cup {NilParam} : USet(ColOwner, v)

Terminal(r) ==
    /\ res.op = "none"
    /\ res' = r
    /\ UNCHANGED <<qs, uqs, steps, entityVars, builderVars, mapperVars, threadVars>>

\* What the store may answer to Exec and to QueryRow/Scan of a count.
ExecAnswers ==
    {Answer(NoErr, n, 0) : n \in 0..MaxRows} \cup {Answer(StoreErr, 0, 0)}

\* What the store may answer to Query: an error, or rows.
QueryAnswers ==
    {Answer(NoErr, k, f) : k \in 0..MaxRows, f \in 0..MaxRows} \cup {Answer(StoreErr, 0, 0)}

\* What row.Scan may answer after QueryRow: a row, no row, a failure.
ScanAnswers ==
    {Answer(NoErr, id, 0) : id \in Values}
        \cup {Answer(ErrNoRows, 0, 0), Answer(StoreErr, 0, 0)}

TCount == ~uqs.live /\ \E ans \in ExecAnswers : Terminal(QSCount(qs, ans))

TAll == ~uqs.live /\ \E ans \in QueryAnswers : ans.failAt <= ans.n /\ Terminal(QSAll(qs, ans))

TFirst == ~uqs.live /\ \E ans \in ScanAnswers : Terminal(QSFirst(qs, ans))

TDelete == ~uqs.live /\ \E ans \in ExecAnswers : Terminal(QSDelete(qs, ans))

TExec == uqs.live /\ \E ans \in ExecAnswers : Terminal(UpdateExec(uqs, ans))

NextQuery ==
    \/ QIdEq \/ QNameNe \/ QDeletedAtIsNull \/ QDeletedAtIsNotNull
    \/ QIdIn \/ QIdNotIn \/ QOr \/ QOwnerIn \/ QOrderBy \/ QForUpdate
    \/ QUpdate \/ USetName \/ USetOwner
    \/ TCount \/ TAll \/ TFirst \/ TDelete \/ TExec

SpecQuery == InitQuery /\ [][NextQuery]_vars

\* ------------------------------------------------------------ properties of SpecQuery

\* The parameter values of a fragment tree, left to right.
RECURSIVE FragmentValues(_)
RECURSIVE SeqValues(_)
RECURSIVE GroupValues(_)
FragmentValues(f) ==
    CASE f.k = "unary" -> <<f.param>>
      [] f.k = "const" -> << >>
      [] f.k \in {"in", "notin"} -> f.vals
      [] f.k = "or" -> GroupValues(f.groups)
      [] f.k = "subq" -> SeqValues(f.sub[1].condFragments)
SeqValues(fs) ==
    IF fs = << >> THEN << >> ELSE FragmentValues(Head(fs)) \o SeqValues(Tail(fs))
GroupValues(gs) ==
    IF gs = << >> THEN << >> ELSE SeqValues(Head(gs)) \o GroupValues(Tail(gs))

\* The placeholders of text are $1..$n, left to right, n the number of params.
Numbered(text, params) == Placeholders(text) = [i \in 1..Len(params) |-> i]

\* Whether some fragment of kind k is among fs.
HasKind(fs, k) == \E i \in DOMAIN fs : fs[i].k = k

\* C3: a <Col>NotIn over an empty value list compiles to the tautology guard
\* `true` with no parameters.
C3_NotInEmptyIsTrue ==
    \A i \in DOMAIN qs.condFragments :
        LET f == qs.condFragments[i]
            r == CompileFragment(f, 0)
        IN (f.k = "notin" /\ f.vals = << >>)
              => (r.text = <<Lit("true")>> /\ r.params = << >>)

\* C4: for every fragment tree a builder accumulates (and for the assignments
\* of an update builder), compiling with one counter yields as many
\* placeholders as parameters, numbered $1..$n left to right, the i-th
\* parameter being the i-th value of the tree in text order; the same holds of
\* every statement handed to the store.
C4_PlaceholdersMatchParams ==
    LET w == whereClause(qs, 0)
        e == ExecStatement(uqs)
    IN /\ Numbered(w.text, w.params)
       /\ w.params = SeqValues(qs.condFragments)
       /\ uqs.live =>
            /\ Numbered(e.text, e.params)
            /\ e.params = SeqValues(uqs.updates) \o SeqValues(uqs.condFragments)
       /\ \A i \in DOMAIN res.calls : Numbered(res.calls[i].st, res.calls[i].params)

C4_Witness ==
    /\ res.op = "All"
    /\ HasKind(qs.condFragments, "or")
    /\ HasKind(qs.condFragments, "in")
    /\ Len(res.calls[1].params) >= 5

\* C6: First() issues exactly one QueryRow with LIMIT 1 and has three
\* outcomes: no row -> (nil, nil); a scanned row -> (entity with existsInDB,
\* nil); any other failure -> (nil, that error); never entity and error.
C6_FirstOutcomes ==
    res.op = "First" =>
        /\ Len(res.calls) = 1
        /\ res.calls[1].fn = "QueryRow"
        /\ res.calls[1].st[Len(res.calls[1].st)] = Lit(" LIMIT 1")
        /\ LET a == res.calls[1].ans
           IN /\ a.err = ErrNoRows => (res.ents = << >> /\ res.err = NoErr)
              /\ a.err = NoErr =>
                    /\ res.err = NoErr
                    /\ Len(res.ents) = 1
                    /\ res.ents[1].existsInDB
                    /\ res.ents[1].id = a.n
              /\ a.err \notin {NoErr, ErrNoRows} => (res.ents = << >> /\ res.err = a.err)
        /\ ~(res.ents # << >> /\ res.err # NoErr)

C6_Witness ==
    /\ res.op = "First"
    /\ res.calls[1].ans.err = StoreErr
    /\ res.err = StoreErr
    /\ qs.condFragments # << >>

\* C8: Exec() of an update builder with no assignment returns (0, nil) and
\* makes no store call, whatever WHERE conditions it carries.
C8_EmptyExecIsNoop ==
    (res.op = "Exec" /\ uqs.updates = << >>) =>
        (res.calls = << >> /\ res.n = 0 /\ res.err = NoErr)

C8_Witness ==
    /\ res.op = "Exec"
    /\ uqs.updates = << >>
    /\ Len(uqs.condFragments) >= 2

\* The text before the first token Lit(mark), and the text from it on.
RECURSIVE Before(_, _)
Before(text, mark) ==
    IF text = << >> \/ Head(text) = Lit(mark) THEN << >>
    ELSE <<Head(text)>> \o Before(Tail(text), mark)
From(text, mark) == SubSeq(text, Len(Before(text, mark)) + 1, Len(text))

\* C9: Exec() with k >= 1 parameterized assignments and a WHERE clause of w
\* parameters numbers the assignments $1..$k in call order and the WHERE
\* clause $(k+1)..$(k+w); the parameters are the assigned values followed by
\* the WHERE values; IdEq(v).Update().SetName(y) gives
\* SET "name" = $1 WHERE "id" = $2 with params [y, v].
C9_AssignmentsNumberedFirst ==
    (res.op = "Exec" /\ uqs.updates # << >>) =>
        LET call == res.calls[1]
            vals == SeqValues(uqs.updates)
            wvals == SeqValues(uqs.condFragments)
            k == Len(vals)
            w == Len(wvals)
        IN /\ Len(res.calls) = 1
           /\ call.params = vals \o wvals
           /\ Placeholders(Before(call.st, " WHERE ")) = [i \in 1..k |-> i]
           /\ Placeholders(From(call.st, " WHERE ")) = [i \in 1..w |-> k + i]
           /\ \A y, v \in Values :
                (/\ uqs.updates = <<UnaryFragment(ColName \o " =", y)>>
                 /\ uqs.condFragments = <<UnaryFragment(ColId \o " =", v)>>)
                => /\ call.st = <<Lit("UPDATE \"t\" SET "), Lit("\"name\" ="), Ph(1),
                                  Lit(" WHERE "), Lit("\"id\" ="), Ph(2)>>
                   /\ call.params = <<y, v>>

C9_Witness ==
    /\ res.op = "Exec"
    /\ uqs.updates = <<UnaryFragment(ColName \o " =", 2)>>
    /\ uqs.condFragments = <<UnaryFragment(ColId \o " =", 1)>>
    /\ res.calls[1].params = <<2, 1>>

\* ------------------------------------------------------------ SpecEntity
\* A caller holding a collection of entities of T, some scanned from the
\* store (existsInDB), some constructed (not), saving and deleting them.

\* The j-th entity of the collection: a constructed entity of a table with
\* an autofield key has no key value yet.
InitialEntity(fs, j, exists, valid) ==
    Entity(exists, IF exists \/ ~pk(fs).auto THEN j ELSE 0, j + 10,
           IF valid \/ ~fs[3].null THEN j + 20 ELSE NilParam)

InitEntity ==
    /\ qs = EmptyQS
    /\ uqs = NoUQS
    /\ steps = 0
    /\ res = NoResult
    /\ schema \in {Fields(a, n) : a, n \in BOOLEAN}
    /\ \E n \in 0..MaxEnts : \E flags, valid \in [1..n -> BOOLEAN] :
          ents = [j \in 1..n |-> InitialEntity(schema, j, flags[j], valid[j])]
    /\ pre = ents
    /\ heap = << >> /\ oheap = << >> /\ qsv = << >> /\ uqsv = << >>
    /\ dj = << >> /\ mdl = << >> /\ thr = << >>
    /\ parent = << >> /\ expect = << >> /\ recv = 0

\* What the store may answer to the one statement of Save() or Delete().
SaveAnswers == {Answer(NoErr, 0, 0), Answer(StoreErr, 0, 0)}

\* What the store may answer to the multi-row INSERT: an error, or n rows of
\* which row failAt fails to scan, rows.Err() being rowsErr once they run out.
BatchAnswers ==
    {RowsAnswer(NoErr, n, f, re) : n \in 0..MaxEnts, f \in 0..MaxEnts, re \in {NoErr, StoreErr}}
        \cup {Answer(StoreErr, 0, 0)}

\* res.n names the receiver of an entity operation.
ESave ==
    \E i \in DOMAIN ents, ans \in SaveAnswers :
        LET o == EntitySave(schema, ents[i], ans)
        IN /\ ents' = [ents EXCEPT ![i] = o.ents]
           /\ res' = [o.res EXCEPT !.n = i]
           /\ pre' = ents
           /\ UNCHANGED <<qs, uqs, steps, schema, builderVars, mapperVars, threadVars>>

EDelete ==
    \E i \in DOMAIN ents, ans \in SaveAnswers :
        LET o == EntityDelete(schema, ents[i], ans)
        IN /\ ents' = [ents EXCEPT ![i] = o.ents]
           /\ res' = [o.res EXCEPT !.n = i]
           /\ pre' = ents
           /\ UNCHANGED <<qs, uqs, steps, schema, builderVars, mapperVars, threadVars>>

EGetOwner ==
    \E i \in DOMAIN ents, ans \in ScanAnswers :
        /\ res' = [EntityGetOwner(schema, ents[i], ans) EXCEPT !.n = i]
        /\ pre' = ents
        /\ UNCHANGED <<qs, uqs, steps, schema, ents, builderVars, mapperVars, threadVars>>

\* The answers that differ for a Save: none is read when no INSERT is issued,
\* Exec returns no rows, rows past the inserted ones are never fetched, and
\* rows.Err() is read only when Next() is false before the last entity.
Answers(N, failIdx) ==
    IF failIdx # 0 \/ N = 0 THEN {Answer(NoErr, 0, 0)}
    ELSE {ans \in BatchAnswers :
            /\ ans.failAt <= ans.n
            /\ ans.n <= N
            /\ auto_fields(schema) = << >> => ans.n = 0
            /\ ans.rowsErr # NoErr =>
                  (auto_fields(schema) # << >> /\ ans.failAt = 0 /\ ans.n < N)}

LSave ==
    \E failIdx \in {0} \cup {i \in DOMAIN ents : ents[i].existsInDB} :
      \E ans \in Answers(Len(Indices(ents, LAMBDA e : ~e.existsInDB)), failIdx) :
        /\ ans.failAt <= ans.n
        /\ LET o == ListSave(schema, ents, failIdx, ans)
           IN /\ ents' = o.ents
              /\ res' = o.res
              /\ pre' = ents
              /\ UNCHANGED <<qs, uqs, steps, schema, builderVars, mapperVars, threadVars>>

NextEntity == ESave \/ EDelete \/ EGetOwner \/ LSave

SpecEntity == InitEntity /\ [][NextEntity]_vars

\* ------------------------------------------------------------ properties of SpecEntity

\* The column names a text mentions, left to right.
RECURSIVE TextColumns(_)
TextColumns(text) ==
    IF text = << >> THEN << >>
    ELSE (IF Head(text).s \in {ColId, ColName, ColOwner} THEN <<Head(text).s>> ELSE << >>)
         \o TextColumns(Tail(text))

\* The calls of the last operation whose statement starts with Lit(verb).
CallsOf(verb) == SelectSeq(res.calls, LAMBDA c : Head(c.st) = Lit(verb))

NoDuplicates(sq) == Cardinality(ToSet(sq)) = Len(sq)

\* C2: Delete() clears existsInDB only when the store reports success: on an
\* Exec error the flag is left as it was and the error is returned; on
\* success the flag becomes false.
C2_DeleteClearsOnlyOnSuccess ==
    res.op = "Delete" /\ res.n \in DOMAIN ents =>
        LET a == res.calls[1].ans
        IN /\ a.err # NoErr =>
                (ents[res.n].existsInDB = pre[res.n].existsInDB /\ res.err = a.err)
           /\ a.err = NoErr => (~ents[res.n].existsInDB /\ res.err = NoErr)

\* C5: a batch Save over N new and M existing entities that reports no error
\* has issued exactly M UPDATEs and, when N > 0, exactly one multi-row INSERT
\* (none when N = 0); every new entity then has existsInDB = true and, with
\* an autofield, the i-th new entity holds the value of the i-th row returned.
C5_BatchSaveFlagsAllNew ==
    (res.op = "ListSave" /\ res.err = NoErr) =>
        LET new == Indices(pre, LAMBDA e : ~e.existsInDB)
            M == Len(pre) - Len(new)
        IN /\ Len(CallsOf("UPDATE \"t\" SET ")) = M
           /\ Len(CallsOf("INSERT INTO \"t\" (")) = (IF Len(new) > 0 THEN 1 ELSE 0)
           /\ Len(res.calls) = M + (IF Len(new) > 0 THEN 1 ELSE 0)
           /\ \A k \in DOMAIN new :
                /\ ents[new[k]].existsInDB
                /\ pk(schema).auto => ents[new[k]].id = NewId(k)

\* C7: Save() of an entity with existsInDB issues one UPDATE of all non-key
\* columns keyed by the primary key and leaves existsInDB alone; Save() of an
\* entity without it issues one INSERT of all non-autogenerated columns (the
\* key included when it is not autogenerated), reads the autogenerated
\* columns back from that call, and sets existsInDB only on success: on
\* failure the flag stays false and the error is returned.
C7_SaveUpdatesOrInserts ==
    (res.op = "Save" /\ res.n \in DOMAIN ents) =>
        LET was == pre[res.n]
            now == ents[res.n]
            call == res.calls[1]
            nonKey == SelectSeq(schema, LAMBDA f : ~f.pk)
            nonAuto == SelectSeq(schema, LAMBDA f : ~f.auto)
            auto == SelectSeq(schema, LAMBDA f : f.auto)
            key == SelectSeq(schema, LAMBDA f : f.pk)
            cols(fields) == {fields[i].col : i \in DOMAIN fields}
        IN /\ Len(res.calls) = 1
           /\ res.err = call.ans.err
           /\ Len(call.params) = Len(Placeholders(call.st))
           /\ was.existsInDB =>
                /\ Head(call.st) = Lit("UPDATE \"t\" SET ")
                /\ call.fn = "Exec"
                /\ ToSet(TextColumns(Before(call.st, " WHERE "))) = cols(nonKey)
                /\ NoDuplicates(TextColumns(Before(call.st, " WHERE ")))
                /\ TextColumns(From(call.st, " WHERE ")) = <<key[1].col>>
                /\ \A j \in DOMAIN call.params :
                      \E f \in ToSet(schema) :
                          /\ TextColumns(call.st)[j] = f.col
                          /\ call.params[j] = was[f.member]
                /\ now = was
           /\ ~was.existsInDB =>
                /\ Head(call.st) = Lit("INSERT INTO \"t\" (")
                /\ ToSet(TextColumns(Before(call.st, "RETURNING "))) = cols(nonAuto)
                /\ NoDuplicates(TextColumns(Before(call.st, "RETURNING ")))
                /\ ToSet(TextColumns(From(call.st, "RETURNING "))) = cols(auto)
                /\ \A j \in DOMAIN call.params :
                      \E f \in ToSet(schema) :
                          /\ TextColumns(call.st)[j] = f.col
                          /\ call.params[j] = was[f.member]
                /\ auto # << >> => call.fn = "QueryRow"
                /\ now.existsInDB = (call.ans.err = NoErr)
                /\ call.ans.err # NoErr => now = was
                /\ (call.ans.err = NoErr /\ auto # << >>) => now.id = NewId(1)

C7_Witness ==
    /\ res.op = "Save"
    /\ res.n \in DOMAIN ents
    /\ ~pre[res.n].existsInDB
    /\ ~pk(schema).auto
    /\ res.err = StoreErr
    /\ ~ents[res.n].existsInDB

\* ------------------------------------------------------------ SpecBuilder
\* A program that builds a base builder, p := QS{}.NameEq(1)...OrderById()...,
\* continues it with a chain of filters whose builders it keeps,
\* q := p.IdEq(1); d := q.IdEq(1); ..., and then derives further builders
\* from any builder it holds, in any order, and pivots to update builders.

\* Or groups nest at most as deep as there are Or calls, unless cyclic.
Fuel == MaxHeld + MaxDerived + 1

\* The base builder: nFilters filter calls, then nOrders OrderBy calls.
RECURSIVE BaseChain(_, _)
BaseChain(nFilters, nOrders) ==
    IF nOrders > 0
    THEN LET r == BaseChain(nFilters, nOrders - 1)
         IN GoOrderBy(r.heap, r.oheap, r.qs, ColId)
    ELSE IF nFilters > 0
    THEN LET r == BaseChain(nFilters - 1, 0)
         IN GoFilter(r.heap, r.oheap, r.qs, ColName \o " =", 1)
    ELSE Returned(<< >>, << >>, QSValue(NilSlice, NilSlice, ""))

\* The base and the k builders of the chain that continues it: the heap, the
\* builders held, which one each came from, and what a value-semantics
\* builder would show for each.
RECURSIVE HeldChain(_, _, _)
HeldChain(nFilters, nOrders, k) ==
    IF k = 0
    THEN LET b == BaseChain(nFilters, nOrders)
         IN [heap |-> b.heap, oheap |-> b.oheap, qsv |-> <<b.qs>>, parent |-> <<0>>,
             expect |-> <<Resolve(b.heap, b.oheap, b.qs, Fuel)>>]
    ELSE LET c == HeldChain(nFilters, nOrders, k - 1)
             r == GoFilter(c.heap, c.oheap, c.qsv[k], ColId \o " =", 1)
         IN [heap |-> r.heap, oheap |-> r.oheap, qsv |-> Append(c.qsv, r.qs),
             parent |-> Append(c.parent, k),
             expect |-> Append(c.expect, filter(c.expect[k], ColId \o " =", 1))]

InitBuilder ==
    \E nFilters, nOrders \in 0..MaxBase :
        LET c == HeldChain(nFilters, nOrders, MaxHeld)
        IN /\ heap = c.heap
           /\ oheap = c.oheap
           /\ qsv = c.qsv
           /\ uqsv = << >>
           /\ parent = c.parent
           /\ expect = c.expect
           /\ recv = 0
           /\ qs = EmptyQS /\ uqs = NoUQS /\ steps = 0 /\ res = NoResult
           /\ schema = << >> /\ ents = << >> /\ pre = << >>
           /\ dj = << >> /\ mdl = << >> /\ thr = << >>

\* The value builder i shows now.
Shown(i) == Resolve(heap, oheap, qsv[i], Fuel)

\* Whether compiling a shown fragment list ever ends.
RECURSIVE Ends(_)
Ends(fs) ==
    \A i \in DOMAIN fs :
        /\ fs[i].k # "cycle"
        /\ \A g \in DOMAIN fs[i].groups : Ends(fs[i].groups[g])

\* What All() would hand to the store for a shown builder value.
CompiledSQL(q) ==
    IF Ends(q.condFragments) THEN queryFull(q)
    ELSE Compiled(<<Lit("(never ends)")>>, << >>, 0)

\* Whether builder d is builder q or derived from it.
RECURSIVE DerivedFrom(_, _, _)
DerivedFrom(par, d, q) ==
    IF d = q THEN TRUE
    ELSE IF d = 0 \/ par[d] = 0 THEN FALSE
    ELSE DerivedFrom(par, par[d], q)

\* The WHERE clause and parameters an update builder over slice sl compiles to.
UpdateWhere(sl) ==
    LET fs == ResolveSlice(heap, sl, Fuel)
    IN IF Ends(fs) THEN whereClause(QSValue(fs, << >>, ""), 0)
       ELSE Compiled(<<Lit("(never ends)")>>, << >>, 0)

\* u := q.Update() for held builder i. Beside the shared slice the record
\* notes where u came from, what it compiled to when Update() returned, and
\* whether every mutator called since was on its origin or a descendant.
Pivot(i) ==
    [condFragments |-> GoUpdate(qsv[i]), origin |-> i,
     frozen |-> UpdateWhere(GoUpdate(qsv[i])), scoped |-> TRUE]

\* A mutator called on builder i returned r; a value-semantics builder
\* would have returned e.
Derive(i, r, e) ==
    /\ Len(qsv) < 1 + MaxHeld + MaxDerived
    /\ heap' = r.heap
    /\ oheap' = r.oheap
    /\ qsv' = Append(qsv, r.qs)
    /\ parent' = Append(parent, i)
    /\ expect' = Append(expect, e)
    /\ recv' = i
    /\ uqsv' = [j \in DOMAIN uqsv |->
                  [uqsv[j] EXCEPT !.scoped = @ /\ DerivedFrom(parent, i, uqsv[j].origin)]]
    /\ UNCHANGED <<queryVars, entityVars, mapperVars, threadVars>>

BFilter ==
    \E i \in DOMAIN qsv, v \in Values :
        Derive(i, GoFilter(heap, oheap, qsv[i], ColId \o " =", v),
               filter(Shown(i), ColId \o " =", v))

BOr ==
    \E i \in DOMAIN qsv, j \in DOMAIN qsv :
        Derive(i, GoOr(heap, oheap, qsv[i], <<qsv[j]>>), Or(Shown(i), <<Shown(j)>>))

BOrderBy ==
    \E i \in DOMAIN qsv, key \in OrderKeys :
        Derive(i, GoOrderBy(heap, oheap, qsv[i], key), OrderBy(Shown(i), key))

BForUpdate ==
    \E i \in DOMAIN qsv, clause \in ForClauses :
        Derive(i, GoSetForClause(heap, oheap, qsv[i], clause),
               SetForClause(Shown(i), clause))

\* u := qsv[i].Update()
BUpdate ==
    \E i \in DOMAIN qsv :
        /\ Len(uqsv) < MaxPivots
        /\ uqsv' = Append(uqsv, Pivot(i))
        /\ recv' = 0
        /\ UNCHANGED <<heap, oheap, qsv, parent, expect, queryVars, entityVars, mapperVars, threadVars>>

NextBuilder == BFilter \/ BOr \/ BOrderBy \/ BForUpdate \/ BUpdate

SpecBuilder == InitBuilder /\ [][NextBuilder]_vars

\* ------------------------------------------------------------ properties of the builders

\* C1: every builder derived from a base by a mutator compiles to what the
\* base showed followed by exactly the mutator's own fragment (or order key,
\* or lock clause), and keeps compiling to that whatever mutators are later
\* called on the base or on its other variants.
C1_VariantsIndependent ==
    \A i \in DOMAIN qsv :
        /\ CompiledSQL(Shown(i)).text = CompiledSQL(expect[i]).text
        /\ CompiledSQL(Shown(i)).params = CompiledSQL(expect[i]).params

\* C10: once Update() has returned an update builder, mutators called on
\* the builder it came from, or on builders derived from that one, leave
\* the update builder's compiled WHERE clause and parameters as they were
\* when Update() returned; and Update() itself makes no store call.
C10_PivotIsFrozen ==
    /\ res.calls = << >>
    /\ \A j \in DOMAIN uqsv :
          uqsv[j].scoped => UpdateWhere(uqsv[j].condFragments) = uqsv[j].frozen

\* ------------------------------------------------------------ SpecMapper
\* Model.setup over the Django fields of one model, then Model.generate.
\* A Django field: its name, its class (kind), null, primary_key and, for a
\* relation, the application of the related model ("self": the model's own,
\* "other": another one being generated, "skipped": one not being
\* generated) and the class of the related model's primary key.

DjField(name, kind, null, pkey, relApp, relPk) ==
    [name |-> name, kind |-> kind, null |-> null, pkey |-> pkey,
     relApp |-> relApp, relPk |-> relPk]

\* Fields a model has besides its primary key.
MaxFields == 2

FieldNames == <<"ID", "A", "B", "C", "D">>

\* goname[:1].lower() + goname[1:], and 'id' for 'ID'.
LowerFirst(name) ==
    CASE name = "ID" -> "id" [] name = "A" -> "a" [] name = "B" -> "b"
      [] name = "C" -> "c" [] name = "D" -> "d"

\* Field._get_type_basic
GetTypeBasic(kind) ==
    CASE kind = "bigauto" -> "int64"
      [] kind \in {"int", "auto"} -> "int32"
      [] OTHER -> "string"

\* What Field._get_type leaves in the Field and returns (rawtype "" is None).
Typed(rawtype, relmodel, public, getter, reverse, autofield, packages) ==
    [rawtype |-> rawtype, relmodel |-> relmodel, public |-> public, getter |-> getter,
     reverse |-> reverse, autofield |-> autofield, packages |-> packages]

\* GetType returning None for a ForeignKey into an application that is not generated.
GetType_DropsSkipped(f) ==
    CASE f.kind \in {"auto", "bigauto"} ->
            Typed(GetTypeBasic(f.kind), FALSE, FALSE, "Get" \o f.name, FALSE, TRUE, {})
      [] f.kind = "fk" /\ f.relApp = "skipped" ->
            Typed("", FALSE, TRUE, "", FALSE, FALSE, {})
      [] f.kind = "fk" ->
            Typed(GetTypeBasic(f.relPk), TRUE, FALSE, "Get" \o f.name \o "Raw", FALSE, FALSE,
                  IF f.relApp = "other" THEN {"other"} ELSE {})
      [] f.kind = "rel" ->
            Typed("", f.relApp # "skipped", f.relApp = "skipped",
                  IF f.relApp = "self" THEN f.name ELSE "", f.relApp = "self", FALSE, {})
      [] f.kind = "m2m" -> Typed("", FALSE, TRUE, "", FALSE, FALSE, {})
      [] OTHER -> Typed(GetTypeBasic(f.kind), FALSE, TRUE, "", FALSE, FALSE, {})

\* Field._get_type
GetType(f) ==
    CASE f.kind \in {"auto", "bigauto"} ->
            Typed(GetTypeBasic(f.kind), FALSE, FALSE, "Get" \o f.name, FALSE, TRUE, {})
      [] f.kind = "fk" /\ f.relApp = "skipped" ->
            \* app.generate is false: f = mm.pk, and the basic type of that
            Typed(GetTypeBasic(f.relPk), FALSE, TRUE, "", FALSE, FALSE, {})
      [] f.kind = "fk" ->
            Typed(GetTypeBasic(f.relPk), TRUE, FALSE, "Get" \o f.name \o "Raw", FALSE, FALSE,
                  IF f.relApp = "other" THEN {"other"} ELSE {})
      [] f.kind = "rel" ->
            Typed("", f.relApp # "skipped", f.relApp = "skipped",
                  IF f.relApp = "self" THEN f.name ELSE "", f.relApp = "self", FALSE, {})
      [] f.kind = "m2m" -> Typed("", FALSE, TRUE, "", FALSE, FALSE, {})
      [] OTHER -> Typed(GetTypeBasic(f.kind), FALSE, TRUE, "", FALSE, FALSE, {})

\* Field.setup, with db_column: the Field as Model.setup and the template read it.
FieldSetup(f) ==
    LET t == GetType(f)
        goname == IF t.rawtype # "" /\ ~t.public THEN LowerFirst(f.name) ELSE f.name
    IN [name |-> f.name, pubname |-> f.name, member |-> goname,
        col |-> "\"" \o LowerFirst(f.name) \o (IF f.kind = "fk" THEN "_id" ELSE "") \o "\"",
        rawtype |-> t.rawtype,
        gotype |-> IF t.rawtype = "" THEN ""
                   ELSE IF f.null THEN "sql.Null(" \o t.rawtype \o ")" ELSE t.rawtype,
        relmodel |-> t.relmodel, getter |-> t.getter, reverse |-> t.reverse,
        null |-> f.null, pk |-> f.pkey, auto |-> t.autofield, packages |-> t.packages]

\* A Model before setup.
NewModel ==
    [idx |-> 0, concrete_fields |-> << >>, reverse_fields |-> << >>, pk |-> 0,
     model_packages |-> {}, err |-> NoErr, out |-> << >>]

\* The methods the template generates for a concrete field.
MethodsOf(f) ==
    (IF f.relmodel
     THEN {"Get" \o f.pubname, "Set" \o f.pubname, f.pubname \o "Eq(*Rel)",
           f.pubname \o "RawEq", f.pubname \o "In(RelQS)", "UpdateQS.Set" \o f.pubname \o "(*Rel)"}
     ELSE {f.pubname \o "Eq", f.pubname \o "Ne", f.pubname \o "Lt", f.pubname \o "Le",
           f.pubname \o "Gt", f.pubname \o "Ge", f.pubname \o "In", f.pubname \o "NotIn",
           "UpdateQS.Set" \o f.pubname})
    \cup (IF f.getter # "" THEN {f.getter} ELSE {})
    \cup (IF f.null THEN {f.pubname \o "IsNull", f.pubname \o "IsNotNull"} ELSE {})
    \cup {"OrderBy" \o f.pubname, "OrderBy" \o f.pubname \o "Desc"}

\* Model.generate and the template: what is written for the model.
Generated(m) ==
    LET fs == m.concrete_fields
    IN [members |-> [i \in 1..Len(fs) |-> <<fs[i].member, fs[i].gotype>>],
        methods |-> UNION {MethodsOf(fs[i]) : i \in 1..Len(fs)},
        select |-> ColumnList(fs),
        insert |-> insert_stmt(fs),
        update |-> update_stmt(fs),
        imports |-> m.model_packages]

\* The Django fields a model may have besides its key.
DjChoices ==
    {[kind |-> "int", null |-> n, relApp |-> "", relPk |-> ""] : n \in BOOLEAN}
    \cup {[kind |-> "fk", null |-> n, relApp |-> a, relPk |-> k] :
            n \in BOOLEAN, a \in {"self", "other", "skipped"}, k \in {"auto", "text"}}
    \cup {[kind |-> "rel", null |-> FALSE, relApp |-> a, relPk |-> "auto"] :
            a \in {"self", "other", "skipped"}}
    \cup {[kind |-> "m2m", null |-> FALSE, relApp |-> "self", relPk |-> "auto"]}

InitMapper ==
    /\ \E n \in 0..MaxFields, key \in {"auto", "bigauto", "text"} :
       \E ch \in [1..n -> DjChoices] :
          dj = <<DjField(FieldNames[1], key, FALSE, TRUE, "", "")>>
               \o [i \in 1..n |->
                     DjField(FieldNames[i + 1], ch[i].kind, ch[i].null, FALSE,
                             ch[i].relApp, ch[i].relPk)]
    /\ mdl = NewModel
    /\ thr = << >>
    /\ qs = EmptyQS /\ uqs = NoUQS /\ steps = 0 /\ res = NoResult
    /\ schema = << >> /\ ents = << >> /\ pre = << >>
    /\ heap = << >> /\ oheap = << >> /\ qsv = << >> /\ uqsv = << >>
    /\ parent = << >> /\ expect = << >> /\ recv = 0

\* One turn of the loop of Model.setup.
MSetupField ==
    /\ mdl.idx < Len(dj) /\ mdl.err = NoErr
    /\ LET field == FieldSetup(dj[mdl.idx + 1])
           m == [mdl EXCEPT !.idx = @ + 1]
       IN mdl' =
            IF field.reverse THEN [m EXCEPT !.reverse_fields = Append(@, field)]
            ELSE IF field.rawtype = "" THEN m
            ELSE IF field.pk /\ m.pk # 0 THEN [m EXCEPT !.err = "More than one PK detected"]
            ELSE [m EXCEPT !.concrete_fields = Append(@, field),
                           !.pk = IF field.pk THEN Len(m.concrete_fields) + 1 ELSE @,
                           !.model_packages = @ \cup field.packages]
    /\ UNCHANGED <<dj, thr, queryVars, entityVars, builderVars>>

\* Model.generate, once setup is through.
MGenerate ==
    /\ mdl.idx = Len(dj) /\ mdl.err = NoErr /\ mdl.out = << >>
    /\ mdl' = [mdl EXCEPT !.out = <<Generated(mdl)>>]
    /\ UNCHANGED <<dj, thr, queryVars, entityVars, builderVars>>

NextMapper == MSetupField \/ MGenerate

SpecMapper == InitMapper /\ [][NextMapper]_vars

\* ------------------------------------------------------------ properties of SpecMapper

\* The ForeignKey fields of the model into an application that is not generated.
SkippedForeignKeys == {i \in 1..Len(dj) : dj[i].kind = "fk" /\ dj[i].relApp = "skipped"}

\* The names of the struct members written.
MemberNames(out) == {out.members[i][1] : i \in 1..Len(out.members)}

\* The methods written that filter on, order by or assign the column named name.
ColumnMethods(out, name) ==
    out.methods \cap
        ({name \o op : op \in {"Eq", "Ne", "Lt", "Le", "Gt", "Ge", "In", "NotIn", "RawEq",
                                "Eq(*Rel)", "In(RelQS)", "IsNull", "IsNotNull"}}
         \cup {"OrderBy" \o name, "OrderBy" \o name \o "Desc",
               "UpdateQS.Set" \o name, "UpdateQS.Set" \o name \o "(*Rel)"})

\* The statements written in which col stands.
StatementsWith(out, col) ==
    {st \in {"select", "insert", "update"} : Lit(col) \in ToSet(out[st])}

\* C11 as stated: a foreign-key column whose referenced table belongs to an
\* application outside the generation set is dropped entirely: no struct
\* member, no filter/order/update methods, no place in the SELECT, INSERT
\* and UPDATE column lists.
C11_SkippedForeignKeyDropped ==
    mdl.out # << >> =>
        \A i \in SkippedForeignKeys :
            /\ dj[i].name \notin MemberNames(mdl.out[1])
            /\ ColumnMethods(mdl.out[1], dj[i].name) = {}
            /\ StatementsWith(mdl.out[1], FieldSetup(dj[i]).col) = {}

\* C11 amended: a foreign-key column whose referenced table belongs to an
\* application outside the generation set is kept as a plain public column
\* of the referenced primary key's type (optional when nullable): it has a
\* struct member, the scalar filter, order and update methods and its place
\* in the SELECT, INSERT and UPDATE column lists; only the relation methods
\* (Get, Set, Eq and In over the related type) and the import of the other
\* module are left out.
C11_SkippedForeignKeyIsPlainColumn ==
    mdl.out # << >> =>
        \A i \in SkippedForeignKeys :
            LET out == mdl.out[1]
                n == dj[i].name
                t == GetTypeBasic(dj[i].relPk)
            IN /\ \E k \in 1..Len(out.members) :
                    out.members[k] = <<n, IF dj[i].null THEN "sql.Null(" \o t \o ")" ELSE t>>
               /\ ColumnMethods(out, n) =
                    {n \o op : op \in {"Eq", "Ne", "Lt", "Le", "Gt", "Ge", "In", "NotIn"}}
                    \cup {"OrderBy" \o n, "OrderBy" \o n \o "Desc", "UpdateQS.Set" \o n}
                    \cup (IF dj[i].null THEN {n \o "IsNull", n \o "IsNotNull"} ELSE {})
               /\ StatementsWith(out, FieldSetup(dj[i]).col) = {"select", "insert", "update"}
               /\ {"Get" \o n, "Set" \o n, "Get" \o n \o "Raw"} \cap out.methods = {}
               /\ (\A k \in 1..Len(dj) : dj[k].relApp # "other") => out.imports = {}

\* A model with a nullable foreign key into an application that is not
\* generated, and a foreign key into one that is, has been generated.
C11_Witness ==
    /\ mdl.out # << >>
    /\ \E i \in SkippedForeignKeys : dj[i].null
    /\ \E i \in 1..Len(dj) : dj[i].kind = "fk" /\ dj[i].relApp = "other"
    /\ mdl.out[1].imports = {"other"}

\* ------------------------------------------------------------ SpecThreads
\* Two goroutines derive from one shared base builder without locking. Each
\* calls base.filter(c, v): the receiver is its own copy of the struct, the
\* append writes the shared backing array when the base has room left, and
\* the goroutine later compiles the builder it was handed back. The writes of
\* the two goroutines to one cell are unsynchronised: the cell ends up with
\* either fragment, the interleaving of the steps deciding which.

Threads == {1, 2}

\* What a goroutine holds: where it is, its copy of the receiver, and the
\* statement and parameters its builder compiled to.
Thread(pc, q, col, sql) == [pc |-> pc, q |-> q, col |-> col, sql |-> sql]

NoSQL == Compiled(<< >>, << >>, 0)

InitThreads ==
    /\ \E nFilters, nOrders \in 0..MaxBase :
          LET b == BaseChain(nFilters, nOrders)
          IN /\ heap = b.heap
             /\ oheap = b.oheap
             /\ qsv = <<b.qs>>
             /\ expect = <<Resolve(b.heap, b.oheap, b.qs, Fuel)>>
    /\ thr = [t \in Threads |-> Thread("go", QSValue(NilSlice, NilSlice, ""), "", NoSQL)]
    /\ uqsv = << >> /\ parent = <<0>> /\ recv = 0
    /\ qs = EmptyQS /\ uqs = NoUQS /\ steps = 0 /\ res = NoResult
    /\ schema = << >> /\ ents = << >> /\ pre = << >>
    /\ dj = << >> /\ mdl = << >>

\* base.<Col>Eq(t): the call copies the receiver (the three slice headers).
TCall(t) ==
    /\ thr[t].pc = "go"
    /\ \E c \in {ColId, ColName} :
          thr' = [thr EXCEPT ![t] = Thread("called", qsv[1], c, NoSQL)]
    /\ UNCHANGED <<heap, oheap, qsv, uqsv, parent, expect, recv,
                   queryVars, entityVars, mapperVars>>

\* The body of filter: the append and the return of the copy.
TFilter(t) ==
    /\ thr[t].pc = "called"
    /\ LET r == GoFilter(heap, oheap, thr[t].q, thr[t].col \o " =", t)
       IN /\ heap' = r.heap
          /\ oheap' = r.oheap
          /\ thr' = [thr EXCEPT ![t] = Thread("returned", r.qs, thr[t].col, NoSQL)]
    /\ UNCHANGED <<qsv, uqsv, parent, expect, recv, queryVars, entityVars, mapperVars>>

\* The goroutine compiles the builder it got: queryFull reads the cells.
TCompile(t) ==
    /\ thr[t].pc = "returned"
    /\ thr' = [thr EXCEPT ![t] =
                 Thread("done", thr[t].q, thr[t].col,
                        CompiledSQL(Resolve(heap, oheap, thr[t].q, Fuel)))]
    /\ UNCHANGED <<heap, oheap, qsv, uqsv, parent, expect, recv,
                   queryVars, entityVars, mapperVars>>

NextThreads == \E t \in Threads : TCall(t) \/ TFilter(t) \/ TCompile(t)

SpecThreads == InitThreads /\ [][NextThreads]_vars

\* ------------------------------------------------------------ properties of SpecThreads

\* C12: deriving from one shared base in two goroutines without locking is
\* safe: under every interleaving the builder goroutine t got from
\* base.<Col>Eq(t) shows, and compiles to, the base's fragments plus only its
\* own fragment, whatever the other goroutine has written.
C12_ConcurrentDerivationSafe ==
    \A t \in DOMAIN thr :
        LET own == filter(expect[1], thr[t].col \o " =", t)
        IN /\ thr[t].pc \in {"returned", "done"} =>
                Resolve(heap, oheap, thr[t].q, Fuel) = own
           /\ thr[t].pc = "done" =>
                /\ thr[t].sql.text = CompiledSQL(own).text
                /\ thr[t].sql.params = CompiledSQL(own).params

\* ------------------------------------------------------------ further properties of SpecQuery

\* The fragments of fs before position i, and those after it.
Upto(fs, i) == SubSeq(fs, 1, i - 1)
After(fs, i) == SubSeq(fs, i + 1, Len(fs))

\* Whether text holds an opening " IN (" directly followed by its ")".
EmptyInList(text) ==
    \E k \in 1..(Len(text) - 1) :
        /\ text[k] \in {Lit(ColId \o " IN ("), Lit(ColOwner \o " IN (")}
        /\ text[k + 1] = Lit(")")

\* C13: a <Col>In over an empty value list compiles to the constant `false`
\* with no parameters and takes no token from the counter, never `IN ()`;
\* the fragments after it are numbered from where the fragment before it
\* stopped, and the statement's parameters are those before and those after.
C13_EmptyInIsFalse ==
    \A i \in DOMAIN qs.condFragments :
        LET f == qs.condFragments[i]
            before == AndFragmentCompile(Upto(qs.condFragments, i), 0)
            r == CompileFragment(f, before.c)
            after == AndFragmentCompile(After(qs.condFragments, i), r.c)
            w == whereClause(qs, 0)
        IN (f.k = "in" /\ f.vals = << >>) =>
              /\ r.text = <<Lit("false")>>
              /\ r.params = << >>
              /\ r.c = before.c
              /\ Placeholders(after.text) = [k \in 1..Len(after.params) |-> before.c + k]
              /\ Placeholders(w.text) = Placeholders(before.text) \o Placeholders(after.text)
              /\ w.params = before.params \o after.params
              /\ ~EmptyInList(w.text)
              /\ \A n \in DOMAIN res.calls :
                    ~EmptyInList(res.calls[n].st) /\ Numbered(res.calls[n].st, res.calls[n].params)

\* All() over IdIn() of no values followed by a filter with a parameter.
C13_Witness ==
    /\ res.op = "All"
    /\ Len(qs.condFragments) = 2
    /\ qs.condFragments[1] = InFragment(ColId, << >>)
    /\ qs.condFragments[2].k = "unary"
    /\ res.calls[1].params = <<qs.condFragments[2].param>>
    /\ Placeholders(res.calls[1].st) = <<1>>

\* The texts of the tokens of text.
Texts(text) == {text[k].s : k \in DOMAIN text}

\* C15: a <Col>In(relatedQuerySet) fragment is compiled with the outer
\* statement's counter: after j placeholders of the fragments before it, the
\* s placeholders of the related builder's WHERE are $(j+1)..$(j+s), the
\* fragments after it start at $(j+s+1), and the related builder's
\* parameters stand at positions j+1..j+s of the one parameter list; the
\* related builder's ordering and locking mode are not in the subquery.
C15_SubqueryInline ==
    \A i \in DOMAIN qs.condFragments :
        LET f == qs.condFragments[i]
            before == AndFragmentCompile(Upto(qs.condFragments, i), 0)
            j == before.c
            r == CompileFragment(f, j)
            after == AndFragmentCompile(After(qs.condFragments, i), r.c)
            w == whereClause(qs, 0)
        IN f.k = "subq" =>
              LET inner == SeqValues(f.sub[1].condFragments)
                  s == Len(inner)
              IN /\ Head(r.text) = Lit(f.txt \o " IN (")
                 /\ r.text[2] = Head(select_id_stmt)
                 /\ r.text[Len(r.text)] = Lit(")")
                 /\ Placeholders(r.text) = [k \in 1..s |-> j + k]
                 /\ r.params = inner
                 /\ Placeholders(after.text) = [k \in 1..Len(after.params) |-> j + s + k]
                 /\ w.params = before.params \o inner \o after.params
                 /\ Len(before.params) = j
                 /\ Texts(r.text) \cap ({" ORDER BY "} \cup OrderKeys \cup (ForClauses \ {""})) = {}

\* All() over IdEq(v).OwnerIn(oqs), oqs a builder with a filter, an ordering
\* and FOR UPDATE: the subquery holds $2.
C15_Witness ==
    /\ res.op = "All"
    /\ Len(qs.condFragments) = 2
    /\ qs.condFragments[1].k = "unary"
    /\ qs.condFragments[2] = SubqueryFragment(ColOwner, ExprC)
    /\ Placeholders(res.calls[1].st) = <<1, 2>>
    /\ res.calls[1].params = <<qs.condFragments[1].param, 2>>

\* ------------------------------------------------------------ further properties of SpecEntity

\* C14: Get<Col>() on a nullable foreign-key column holding no value returns
\* (nil, nil) and makes no store call; holding a value (or on a column that
\* is not nullable) it issues exactly one First() query on the related
\* table, filtered by primary key = the stored value.
C14_GetRelated ==
    (res.op = "GetOwner" /\ res.n \in DOMAIN ents) =>
        LET e == ents[res.n]
        IN IF schema[3].null /\ e.owner = NilParam
           THEN res.calls = << >> /\ res.ents = << >> /\ res.err = NoErr
           ELSE /\ Len(res.calls) = 1
                /\ res.calls[1].fn = "QueryRow"
                /\ res.calls[1].st =
                      select_stmt \o <<Lit(" WHERE "), Lit(ColId \o " ="), Ph(1), Lit(" LIMIT 1")>>
                /\ res.calls[1].params = <<e.owner>>
                /\ e.owner # NilParam

\* GetOwner() was called on an entity whose nullable owner holds no value,
\* in a list where another entity's owner does.
C14_Witness ==
    /\ res.op = "GetOwner"
    /\ schema[3].null
    /\ ents[res.n].owner = NilParam
    /\ \E j \in DOMAIN ents : ents[j].owner # NilParam
    /\ res.calls = << >>

\* The placeholders of every parenthesised tuple of text, tuple by tuple.
RECURSIVE Tuples(_)
Tuples(text) ==
    IF text = << >> THEN << >>
    ELSE IF Head(text) = Lit("(")
    THEN <<Placeholders(Before(Tail(text), ")"))>> \o Tuples(Tail(text))
    ELSE Tuples(Tail(text))

\* The member of the entity that holds column col.
MemberOf(col) == (CHOOSE f \in ToSet(schema) : f.col = col).member

\* C16: the multi-row INSERT of batch Save for N new entities of a table
\* with k non-autogenerated columns has N VALUES tuples, the i-th (from 0)
\* holding exactly $(i*k+1)..$(i*k+k) in column order; it has N*k
\* parameters, the one at i*k+c being column c of the i-th new entity.
C16_BatchInsertLayout ==
    res.op = "ListSave" =>
        \A n \in DOMAIN res.calls :
            LET call == res.calls[n]
                new == Indices(pre, LAMBDA e : ~e.existsInDB)
                N == Len(new)
                cols == TextColumns(Before(call.st, ") VALUES"))
                k == Len(cols)
            IN Head(call.st) = Lit("INSERT INTO \"t\" (") =>
                  /\ ToSet(cols) = {f.col : f \in {g \in ToSet(schema) : ~g.auto}}
                  /\ k = Cardinality({g \in ToSet(schema) : ~g.auto})
                  /\ Tuples(call.st) = [i \in 1..N |-> [c \in 1..k |-> (i - 1) * k + c]]
                  /\ Len(call.params) = N * k
                  /\ \A i \in 1..N, c \in 1..k :
                        call.params[(i - 1) * k + c] = pre[new[i]][MemberOf(cols[c])]

\* A batch Save has inserted MaxEnts new entities with a caller-supplied
\* key in one statement of three columns a row.
C16_Witness ==
    /\ res.op = "ListSave"
    /\ Len(pre) = MaxEnts
    /\ \A i \in DOMAIN pre : ~pre[i].existsInDB
    /\ ~pk(schema).auto
    /\ Len(res.calls) = 1
    /\ Len(res.calls[1].params) = 3 * MaxEnts
    /\ res.err = NoErr

\* C17 as stated: whenever batch Save returns no error every entity of the
\* collection has existsInDB = true, also when the RETURNING result yields
\* fewer rows than were inserted without reporting an error.
C17_SuccessMeansAllPersisted ==
    (res.op = "ListSave" /\ res.err = NoErr) =>
        \A i \in DOMAIN ents : ents[i].existsInDB

\* C18: batch Save updates the existing entities in collection order before
\* any INSERT; when the UPDATE of one fails, Save returns that error at
\* once: the earlier UPDATEs stand (no further call follows them), no later
\* UPDATE and no INSERT is issued, and every new entity keeps
\* existsInDB = false.
C18_UpdatesFirstFailFast ==
    res.op = "ListSave" =>
        LET ex == Indices(pre, LAMBDA e : e.existsInDB)
            ups == CallsOf("UPDATE \"t\" SET ")
            ins == CallsOf("INSERT INTO \"t\" (")
            failed == {k \in DOMAIN ups : ups[k].ans.err # NoErr}
        IN /\ res.calls = ups \o ins
           /\ Len(ups) <= Len(ex)
           /\ \A k \in DOMAIN ups :
                ups[k].params = <<pre[ex[k]].name, pre[ex[k]].owner, pre[ex[k]].id>>
           /\ failed = {} => Len(ups) = Len(ex)
           /\ \A k \in failed :
                /\ k = Len(ups)
                /\ res.err = ups[k].ans.err
                /\ ins = << >>
                /\ \A i \in DOMAIN pre : ~pre[i].existsInDB => ~ents[i].existsInDB
                /\ ents = pre

\* A batch Save over an existing entity followed by a new one, the UPDATE
\* of the first having failed.
C18_Witness ==
    /\ res.op = "ListSave"
    /\ Len(pre) = 2
    /\ pre[1].existsInDB /\ ~pre[2].existsInDB
    /\ Len(res.calls) = 1
    /\ res.calls[1].ans.err = StoreErr
    /\ res.err = StoreErr
    /\ ~ents[2].existsInDB

====
